---- MODULE Spec2Model ----
(***************************************************************************)
(* Transaction relay protocol of the offline-payment demo:                 *)
(*   - PaymentEventManager   (src/src/utils/paymentEvents.ts)              *)
(*   - QRGenerator           (src/src/components/QRGenerator.tsx), the     *)
(*     sender side with its countdown ("Expiry Supervisor")                *)
(*   - QRScanner             (src/src/components/QRScanner.tsx), the       *)
(*     receiver side ("Verification State Machine")                        *)
(* One action is one JavaScript task (an event handler, a timer callback,  *)
(* the continuation of an await) together with the React re-render and     *)
(* the effects that its state updates trigger.                             *)
(***************************************************************************)
EXTENDS Integers, Sequences, FiniteSets, TLC

\* ------------------------------------------------------------------ bounds
\* payloads the generator may mint (generateId calls)
MaxGen == 2
\* payment_received events injected by other components / other contexts
MaxEvents == 2
\* processTransaction invocations of the receiver
MaxRuns == 2
\* subscribe calls made by other registrants
MaxSubs == 3
\* steps of the clock
MaxClockSteps == 4
\* events other publishers emit or other contexts relay while registrants
\* subscribe and unsubscribe
MaxPublishes == 1

\* ------------------------------------------------------ program constants
\* useState(30), setTimeLeft(30): the validity window in one-second ticks
ValidityWindow == 30
\* setTimeout(..., 30000): the horizon of a durable record, in milliseconds
CleanupDelay == 30000

CorrectPassword == "2239"
\* texts typed into the password field
Passwords == {"0000", CorrectPassword}

NoData == [none |-> TRUE]
NoSig == [nosig |-> TRUE]

TxIds == 1..MaxGen

\* ---------------------------------------------------------------- codec
\* The canonical field set of a transaction under the key sk.
signTransaction(tx, sk) ==
    [id |-> tx.id, amount |-> tx.amount, sender |-> tx.sender,
     recipient |-> tx.recipient, timestamp |-> tx.timestamp,
     description |-> tx.description, key |-> sk]

PrivateKeyOf(pk) == IF pk = "pk_demo" THEN "sk_demo" ELSE "sk_unknown"

\* Fails closed: FALSE on a missing signature, another key, a changed field.
verifySignature(tx, sig, pk) ==
    /\ sig # NoSig
    /\ sig = signTransaction(tx, PrivateKeyOf(pk))

\* A transaction as handleGenerate builds it, before signing.
NewTransaction(id, amountValue, recipient) ==
    [id |-> id, amount |-> amountValue, amountType |-> "number",
     recipient |-> recipient, sender |-> "wallet_A", timestamp |-> 0,
     description |-> "Transfer", status |-> "pending", signature |-> NoSig]

\* transaction.signature = signTransaction(transaction, "sk_demo")
SignedTransaction(id, amountValue, recipient) ==
    LET tx == NewTransaction(id, amountValue, recipient)
    IN  [tx EXCEPT !.signature = signTransaction(tx, "sk_demo")]

MintQrData(id, amountValue, recipient) ==
    [transaction |-> SignedTransaction(id, amountValue, recipient),
     publicKey |-> "pk_demo"]

\* Number.parseFloat on the amount field's text
ParseFloat(s) ==
    CASE s = "50"  -> [nan |-> FALSE, val |-> 50]
      [] s = "0"   -> [nan |-> FALSE, val |-> 0]
      [] s = "-5"  -> [nan |-> FALSE, val |-> -5]
      [] s = "5000" -> [nan |-> FALSE, val |-> 5000]
      [] OTHER     -> [nan |-> TRUE, val |-> 0]

\* The numeral JSON.stringify writes for a number
NumberToString(n) ==
    CASE n = 50   -> "50"
      [] n = 0    -> "0"
      [] n = -5   -> "-5"
      [] n = 5000 -> "5000"

\* The amount member of the text: a bare numeral for a number, a quoted
\* text for a string.
StringifyAmount(tx) ==
    [token |-> IF tx.amountType = "number" THEN "numeral" ELSE "quoted",
     text |-> NumberToString(tx.amount)]

\* A member whose value is undefined is left out of the text.
StringifyTransaction(tx) ==
    LET members ==
            [id |-> tx.id, amount |-> StringifyAmount(tx),
             recipient |-> tx.recipient, sender |-> tx.sender,
             timestamp |-> tx.timestamp, description |-> tx.description,
             status |-> tx.status]
    IN  IF tx.signature = NoSig
        THEN members
        ELSE [m \in DOMAIN members \cup {"signature"} |->
                IF m = "signature" THEN tx.signature ELSE members[m]]

\* Every number is written as a quoted text.
JSONStringifyQuotesNumbers(qr) ==
    [kind |-> "json",
     value |-> IF qr.transaction = NoData
               THEN [publicKey |-> qr.publicKey]
               ELSE [transaction |->
                        [StringifyTransaction(qr.transaction) EXCEPT
                            !.amount.token = "quoted"],
                     publicKey |-> qr.publicKey]]

\* JSON.stringify(qrData): the text the QR image carries
JSONStringify(qr) ==
    [kind |-> "json",
     value |-> IF qr.transaction = NoData
               THEN [publicKey |-> qr.publicKey]
               ELSE [transaction |-> StringifyTransaction(qr.transaction),
                     publicKey |-> qr.publicKey]]

AmountInputs == {"", "50", "0", "-5", "abc"}
RecipientInputs == {"", "B"}

VARIABLES
    \* ---- PaymentEventManager (one instance per execution context)
    eventListeners,   \* kind -> callbacks in insertion order (Map of Sets)
    localStorage,     \* key payment_event_<kind>_<id or ms> -> stored value
    cleanupTimers,    \* pending removeItem timeout closure -> how many
    subscriptions,    \* capabilities returned by subscribe, in call order
    calls,            \* invocations the other registrants' callbacks got
                      \* from the latest emit or replay
    now,              \* Date.now()
    emitLog,          \* <<kind, id>> -> number of emit calls (console.log)
    envEvents,        \* payment_received events injected so far
    \* ---- QRGenerator
    qrData, isGenerating, pendingQr, timeLeft, isExpired, paymentReceived,
    paymentDetails, soundEnabled, timerRef, nextId, genStore, receivedHistory,
    liveIntervals,    \* intervals started by setInterval and not yet cleared
    \* ---- QRScanner
    scanning, scannedData, processingStatus, errorMessage, cameraPermission,
    password, controlsRef, runs, started, savedTx, ledger, syncCalls,
    \* ---- network-state collaborator
    isOnline

busVars == <<eventListeners, localStorage, cleanupTimers, emitLog, envEvents,
            subscriptions, calls, now>>
genVars == <<qrData, isGenerating, pendingQr, timeLeft, isExpired,
             paymentReceived, paymentDetails, soundEnabled, timerRef, nextId,
             genStore, receivedHistory, liveIntervals>>
scanVars == <<scanning, scannedData, processingStatus, errorMessage,
              cameraPermission, password, controlsRef, runs, started,
              savedTx, ledger, syncCalls>>
vars == <<busVars, genVars, scanVars, isOnline>>

Kinds == {"paymentSent", "paymentReceived", "qrExpired"}
\* data.transactionId of an event that carries none (falsy)
NoId == 0
EventIds == TxIds \cup {NoId}
Keys == Kinds \X EventIds

\* ------------------------------------------------------------ QRGenerator
\* The part of the generator a payment_received handler reads or writes.
GenState ==
    [qrData |-> qrData, isExpired |-> isExpired,
     paymentReceived |-> paymentReceived, paymentDetails |-> paymentDetails,
     timerRef |-> timerRef, liveIntervals |-> liveIntervals,
     genStore |-> genStore,
     receivedHistory |-> receivedHistory]

SetGenState(g) ==
    /\ qrData' = g.qrData
    /\ isExpired' = g.isExpired
    /\ paymentReceived' = g.paymentReceived
    /\ paymentDetails' = g.paymentDetails
    /\ timerRef' = g.timerRef
    /\ liveIntervals' = g.liveIntervals
    /\ genStore' = g.genStore
    /\ receivedHistory' = g.receivedHistory

\* if (timerRef.current) { clearInterval(timerRef.current);
\*                         timerRef.current = null }
ClearTimer(g) ==
    IF g.timerRef
    THEN [g EXCEPT !.timerRef = FALSE, !.liveIntervals = @ - 1]
    ELSE g

\* The payment is recorded but the payload is not marked completed and the
\* countdown goes on.
handlePaymentReceivedKeepsCounting(g, eventData) ==
    IF /\ g.qrData # NoData
       /\ eventData.transactionId = g.qrData.transaction.id
    THEN [g EXCEPT !.paymentDetails = eventData,
                   !.genStore = [@ EXCEPT ![g.qrData.transaction.id] = "verified"],
                   !.receivedHistory = Append(@, g.qrData.transaction.id)]
    ELSE g

\* The handler completing the payload on display whatever id the event has
handlePaymentReceivedAnyId(g, eventData) ==
    IF g.qrData # NoData
    THEN [ClearTimer(g) EXCEPT
                   !.paymentReceived = TRUE,
                   !.isExpired = FALSE,
                   !.paymentDetails = eventData,
                   !.genStore = [@ EXCEPT ![g.qrData.transaction.id] = "verified"],
                   !.receivedHistory = Append(@, g.qrData.transaction.id)]
    ELSE g

\* handlePaymentReceived(eventData), QRGenerator.tsx 48-100
handlePaymentReceived(g, eventData) ==
    IF /\ g.qrData # NoData
       /\ eventData.transactionId = g.qrData.transaction.id
    THEN [ClearTimer(g) EXCEPT
                   !.paymentReceived = TRUE,
                   !.isExpired = FALSE,
                   !.paymentDetails = eventData,
                   !.genStore = [@ EXCEPT ![g.qrData.transaction.id] = "verified"],
                   !.receivedHistory = Append(@, g.qrData.transaction.id)]
    ELSE g

\* The effect starts a new interval and overwrites the reference without
\* clearing the interval the reference held.
TimerEffectKeepsOldInterval(g) ==
    IF g.qrData # NoData /\ ~g.isExpired /\ ~g.paymentReceived
    THEN [g EXCEPT !.timerRef = TRUE, !.liveIntervals = @ + 1]
    ELSE g

\* The timer effect (134-173): the interval the reference holds is cleared,
\* and one is started exactly when a payload exists that is neither expired
\* nor paid.  Re-running it with unchanged dependencies replaces a live
\* interval by a live interval.
TimerEffect(g) ==
    IF g.qrData # NoData /\ ~g.isExpired /\ ~g.paymentReceived
    THEN [ClearTimer(g) EXCEPT !.timerRef = TRUE, !.liveIntervals = @ + 1]
    ELSE ClearTimer(g)

\* ---------------------------------------------------- PaymentEventManager
\* Callbacks of registrants other than the generator; boom throws.
Callbacks == {"f", "boom"}
Raises(cb) == cb = "boom"

\* The clock moves in steps of a third of the horizon.
ClockStep == CleanupDelay \div 3
Times == {k * ClockStep : k \in 0..MaxClockSteps}

\* Set.prototype.add / delete on a Set kept in insertion order
SetAdd(listeners, cb) ==
    IF \E k \in 1..Len(listeners) : listeners[k] = cb
    THEN listeners
    ELSE Append(listeners, cb)

SetDelete(listeners, cb) == SelectSeq(listeners, LAMBDA c : c # cb)

\* this.eventListeners.get(eventType)
ListenersOf(kind) == eventListeners[kind]

\* subscribe(eventType, callback) by another registrant (16-26); the
\* returned closure is kept as subscriptions[Len(subscriptions')]
Subscribe(kind, cb) ==
    /\ Len(subscriptions) < MaxSubs
    /\ eventListeners' = [eventListeners EXCEPT ![kind] = SetAdd(@, cb)]
    /\ subscriptions' =
          Append(subscriptions, [kind |-> kind, callback |-> cb, revoked |-> FALSE])
    /\ UNCHANGED <<localStorage, cleanupTimers, emitLog, envEvents, calls, now,
                   genVars, scanVars, isOnline>>

\* The capability leaves the listener Set as it is.
UnsubscribeKeepsListener(i) ==
    /\ i \in 1..Len(subscriptions)
    /\ subscriptions' = [subscriptions EXCEPT ![i].revoked = TRUE]
    /\ UNCHANGED <<eventListeners, localStorage, cleanupTimers, emitLog,
                   envEvents, calls, now, genVars, scanVars, isOnline>>

\* The closure subscribe returned (23-25), invoked for the first time or
\* again: this.eventListeners.get(eventType)?.delete(callback)
Unsubscribe(i) ==
    /\ i \in 1..Len(subscriptions)
    /\ eventListeners' =
          [eventListeners EXCEPT ![subscriptions[i].kind] =
                SetDelete(@, subscriptions[i].callback)]
    /\ subscriptions' = [subscriptions EXCEPT ![i].revoked = TRUE]
    /\ UNCHANGED <<localStorage, cleanupTimers, emitLog, envEvents, calls, now,
                   genVars, scanVars, isOnline>>

\* One registered callback invoked with the event.
InvokeListener(cb, data, g) ==
    IF cb = "handlePaymentReceived" THEN handlePaymentReceived(g, data) ELSE g

\* listeners.forEach(callback => callback(data)), in insertion order
RECURSIVE FanOut(_, _, _)
FanOut(listeners, data, g) ==
    IF listeners = <<>> THEN g
    ELSE FanOut(Tail(listeners), data, InvokeListener(Head(listeners), data, g))

\* What the other registrants' callbacks see of one invocation
Invocation(cb, data) ==
    IF cb \in Callbacks
    THEN <<[callback |-> cb, data |-> data, raised |-> Raises(cb)]>>
    ELSE <<>>

\* The first callback that throws ends the loop.
RECURSIVE InvocationsStopAtRaise(_, _)
InvocationsStopAtRaise(listeners, data) ==
    IF listeners = <<>> THEN <<>>
    ELSE IF Raises(Head(listeners))
    THEN Invocation(Head(listeners), data)
    ELSE Invocation(Head(listeners), data)
            \o InvocationsStopAtRaise(Tail(listeners), data)

\* listeners.forEach(callback => { try { callback(data) } catch ... }):
\* what a callback throws is logged and the loop goes on (33-39, 67-73)
RECURSIVE Invocations(_, _)
Invocations(listeners, data) ==
    IF listeners = <<>> THEN <<>>
    ELSE Invocation(Head(listeners), data) \o Invocations(Tail(listeners), data)

\* window.dispatchEvent(new CustomEvent(kind)): the generator's handleDOMEvent
\* listens on window for "paymentReceived" (QRGenerator.tsx 115-121).
DispatchDOMEvent(kind, data, g) ==
    IF kind = "paymentReceived" THEN handlePaymentReceived(g, data) ELSE g

\* The generator after emit(kind, data) has run its local fan-out and the
\* DOM dispatch (paymentEvents.ts 31-43).
EmitDeliver(kind, data, g) ==
    DispatchDOMEvent(kind, data, FanOut(ListenersOf(kind), data, g))

\* `payment_event_${eventType}_${data.transactionId || Date.now()}`
\* evaluated at time t
StorageKey(kind, data, t) ==
    <<kind, IF data.transactionId # NoId
            THEN [transactionId |-> data.transactionId]
            ELSE [timestamp |-> t]>>

\* localStorage.setItem / removeItem
SetItem(store, key, value) ==
    [k \in DOMAIN store \cup {key} |-> IF k = key THEN value ELSE store[k]]

RemoveItem(store, key) == [k \in DOMAIN store \ {key} |-> store[k]]

\* The closure handed to setTimeout: it holds eventType and data, not the key
TimerClosure(kind, data, due) == [kind |-> kind, data |-> data, due |-> due]

AddTimer(timers, c) ==
    [x \in DOMAIN timers \cup {c} |->
        IF x = c
        THEN (IF c \in DOMAIN timers THEN timers[c] + 1 ELSE 1)
        ELSE timers[x]]

DropTimer(timers, c) ==
    IF timers[c] > 1
    THEN [timers EXCEPT ![c] = @ - 1]
    ELSE [x \in DOMAIN timers \ {c} |-> timers[x]]

\* The durable record and its removal timeout (paymentEvents.ts 45-54).
EmitRecord(kind, data) ==
    /\ emitLog' = [emitLog EXCEPT ![<<kind, data.transactionId>>] = @ + 1]
    /\ localStorage' =
          SetItem(localStorage, StorageKey(kind, data, now),
                  [type |-> kind, data |-> data, timestamp |-> now])
    /\ cleanupTimers' =
          AddTimer(cleanupTimers, TimerClosure(kind, data, now + CleanupDelay))

PaymentEvent(id) ==
    [transactionId |-> id, amount |-> 50, recipient |-> "B",
     sender |-> "wallet_A"]

\* emit(eventType, data) called by a component of the same context (28-55)
Emit(kind, data) ==
    /\ envEvents < MaxEvents
    /\ envEvents' = envEvents + 1
    /\ calls' = Invocations(ListenersOf(kind), data)
    /\ EmitRecord(kind, data)
    /\ SetGenState(TimerEffect(EmitDeliver(kind, data, GenState)))
    /\ UNCHANGED <<eventListeners, subscriptions, now, isGenerating, pendingQr,
                   timeLeft, soundEnabled, nextId, scanVars, isOnline>>

\* emitPaymentReceived(...) (93-101)
EmitPaymentReceived(id) ==
    /\ id \in EventIds
    /\ Emit("paymentReceived", PaymentEvent(id))

\* The storage listener publishing what it replays through emit.
StorageEventRepublishes(kind, data) ==
    /\ envEvents < MaxEvents
    /\ envEvents' = envEvents + 1
    /\ calls' = Invocations(ListenersOf(kind), data)
    /\ EmitRecord(kind, data)
    /\ SetGenState(TimerEffect(FanOut(ListenersOf(kind), data, GenState)))
    /\ UNCHANGED <<eventListeners, subscriptions, now, isGenerating, pendingQr,
                   timeLeft, soundEnabled, nextId, scanVars, isOnline>>

\* The storage listener replaying a record another context wrote
\* (initCrossTabCommunication, paymentEvents.ts 57-80).
StorageEvent(kind, data) ==
    /\ envEvents < MaxEvents
    /\ envEvents' = envEvents + 1
    /\ calls' = Invocations(ListenersOf(kind), data)
    /\ SetGenState(TimerEffect(FanOut(ListenersOf(kind), data, GenState)))
    /\ UNCHANGED <<eventListeners, localStorage, cleanupTimers, emitLog,
                   subscriptions, now, isGenerating, pendingQr, timeLeft,
                   soundEnabled, nextId, scanVars, isOnline>>

CrossTabPaymentReceived(id) ==
    /\ id \in EventIds
    /\ StorageEvent("paymentReceived", PaymentEvent(id))

\* A key of localStorage as the storage event reports it: the text up to
\* the kind, and the rest.
RecordKey(kind, data, t) ==
    [prefix |-> "payment_event_", name |-> StorageKey(kind, data, t)]
\* The key another module of the application writes its list under
UnrelatedKey == [prefix |-> "offline_", name |-> <<"transactions">>]
\* event.key of the event localStorage.clear() raises
NullKey == [prefix |-> "null", name |-> <<>>]

\* JSON.stringify(eventData) of emit (45-50)
StoredText(kind, data, t) ==
    [kind |-> "json", value |-> [type |-> kind, data |-> data, timestamp |-> t]]
\* event.newValue of a removal
NullValue == [kind |-> "null"]

\* The storage listener replaying whatever key the change has.
RelayedAnyKey(event) ==
    /\ event.newValue \notin {NullValue, [kind |-> "empty"]}
    /\ event.newValue.kind = "json"

\* event.key?.startsWith('payment_event_') && event.newValue, and
\* JSON.parse(event.newValue) returning (59-61); what JSON.parse throws is
\* caught and logged (75-77)
Relayed(event) ==
    /\ event.key.prefix = "payment_event_"
    /\ event.newValue \notin {NullValue, [kind |-> "empty"]}
    /\ event.newValue.kind = "json"

\* The listener of window 'storage' events (58-79), called for a change
\* another context made
StorageListener(event) ==
    IF Relayed(event)
    THEN StorageEvent(event.newValue.value.type, event.newValue.value.data)
    ELSE /\ envEvents < MaxEvents
         /\ envEvents' = envEvents + 1
         /\ UNCHANGED <<eventListeners, localStorage, cleanupTimers, emitLog,
                        subscriptions, calls, now, genVars, scanVars, isOnline>>

\* The timeout of a closure: localStorage.removeItem with the key template
\* evaluated when it runs (52-54)
CleanupRecord(c) ==
    /\ c \in DOMAIN cleanupTimers
    /\ c.due <= now
    /\ cleanupTimers' = DropTimer(cleanupTimers, c)
    /\ localStorage' = RemoveItem(localStorage, StorageKey(c.kind, c.data, now))
    /\ UNCHANGED <<eventListeners, emitLog, envEvents, subscriptions, calls, now,
                   genVars, scanVars, isOnline>>

\* Time passes; a timeout that is due runs before the clock moves on.
AdvanceClock ==
    /\ now < MaxClockSteps * ClockStep
    /\ \A c \in DOMAIN cleanupTimers : c.due > now
    /\ now' = now + ClockStep
    /\ UNCHANGED <<eventListeners, localStorage, cleanupTimers, emitLog,
                   envEvents, subscriptions, calls, genVars, scanVars, isOnline>>

\* ------------------------------------------------- QRGenerator operations
\* The form (and its Generate button) is rendered while there is no payload.
FormRendered == qrData = NoData

\* Only the emptiness of the two fields is checked.
InputsNonEmpty(amount, recipient) == amount # "" /\ recipient # ""

InputsValid(amount, recipient) ==
    /\ amount # "" /\ recipient # ""
    /\ ~ParseFloat(amount).nan
    /\ ParseFloat(amount).val > 0

\* handleGenerate, up to the setTimeout (175-231)
HandleGenerate(amount, recipient) ==
    /\ FormRendered /\ ~isGenerating
    /\ nextId < MaxGen
    /\ IF InputsValid(amount, recipient)
       THEN /\ isGenerating' = TRUE
            /\ isExpired' = FALSE
            /\ paymentReceived' = FALSE
            /\ paymentDetails' = NoData
            /\ timeLeft' = ValidityWindow
            /\ nextId' = nextId + 1
            /\ pendingQr' = MintQrData(nextId + 1, ParseFloat(amount).val, recipient)
            /\ genStore' = [genStore EXCEPT ![nextId + 1] = "pending"]
            /\ UNCHANGED <<qrData, soundEnabled, timerRef, receivedHistory,
                           liveIntervals>>
       ELSE UNCHANGED genVars
    /\ UNCHANGED <<busVars, scanVars, isOnline>>

\* The 500 ms timeout of handleGenerate (232-245) and the timer effect
GenerateTimeout ==
    /\ pendingQr # NoData
    /\ qrData' = pendingQr
    /\ pendingQr' = NoData
    /\ isGenerating' = FALSE
    /\ LET g == TimerEffect([GenState EXCEPT !.qrData = pendingQr])
       IN  timerRef' = g.timerRef /\ liveIntervals' = g.liveIntervals
    /\ UNCHANGED <<timeLeft, isExpired, paymentReceived, paymentDetails,
                   soundEnabled, nextId, genStore, receivedHistory,
                   busVars, scanVars, isOnline>>

\* The tick keeps counting at zero instead of expiring.
TickMissesExpiry ==
    /\ liveIntervals > 0
    /\ timeLeft' = IF timeLeft <= 1 THEN 0 ELSE timeLeft - 1
    /\ UNCHANGED <<isExpired, timerRef, liveIntervals, busVars, qrData, isGenerating, pendingQr,
                   paymentReceived, paymentDetails, soundEnabled, nextId,
                   genStore, receivedHistory, scanVars, isOnline>>

\* One firing of the interval (145-164) and, on expiry, the timer effect
Tick ==
    /\ liveIntervals > 0
    /\ IF timeLeft <= 1
       THEN /\ timeLeft' = 0
            /\ isExpired' = TRUE
            /\ EmitRecord("qrExpired", [transactionId |-> qrData.transaction.id])
            /\ LET g == TimerEffect([GenState EXCEPT !.isExpired = TRUE])
               IN  timerRef' = g.timerRef /\ liveIntervals' = g.liveIntervals
            /\ calls' = Invocations(ListenersOf("qrExpired"),
                                    [transactionId |-> qrData.transaction.id])
            /\ UNCHANGED <<eventListeners, envEvents, subscriptions, now>>
       ELSE /\ timeLeft' = timeLeft - 1
            /\ UNCHANGED <<isExpired, timerRef, liveIntervals, busVars>>
    /\ UNCHANGED <<qrData, isGenerating, pendingQr, paymentReceived,
                   paymentDetails, soundEnabled, nextId, genStore,
                   receivedHistory, scanVars, isOnline>>

\* handleReset (248-265); the button is rendered whenever a payload exists
HandleReset ==
    /\ qrData # NoData
    /\ qrData' = NoData
    /\ isExpired' = FALSE
    /\ timeLeft' = ValidityWindow
    /\ paymentReceived' = FALSE
    /\ paymentDetails' = NoData
    /\ LET g == TimerEffect([ClearTimer(GenState) EXCEPT
                                !.qrData = NoData, !.isExpired = FALSE,
                                !.paymentReceived = FALSE])
       IN  timerRef' = g.timerRef /\ liveIntervals' = g.liveIntervals
    /\ UNCHANGED <<isGenerating, pendingQr, soundEnabled, nextId, genStore,
                   receivedHistory, busVars, scanVars, isOnline>>

\* toggleSound (290-299); the timer effect depends on soundEnabled and
\* replaces the interval by a new one under the same condition
ToggleSound ==
    /\ soundEnabled' = ~soundEnabled
    /\ LET g == TimerEffect(GenState)
       IN  timerRef' = g.timerRef /\ liveIntervals' = g.liveIntervals
    /\ UNCHANGED <<qrData, isGenerating, pendingQr, timeLeft, isExpired,
                   paymentReceived, paymentDetails, nextId, genStore,
                   receivedHistory, busVars, scanVars, isOnline>>

\* -------------------------------------------------------------- QRScanner
MsgCameraDenied == "Camera access denied. Please check your browser settings."
MsgScannerFailed == "Failed to start QR scanner. Please try again."
MsgInvalidFormat == "Invalid QR code format. Please try again."
MsgInvalidPassword == "Invalid password. Please try again."
MsgInvalidSignature == "Invalid signature. Transaction may be tampered with."
MsgProcessingFailed == "An error occurred while processing the transaction."
NoMessage == "null"

\* Payloads a camera can be shown: minted ones, a payload whose amount was
\* raised after signing, and payloads with parts missing.
ValidPayload(id) == MintQrData(id, 50, "B")
TamperedPayload(id) ==
    [ValidPayload(id) EXCEPT !.transaction.amount = 5000]
PayloadWithOtherKey(id) == [ValidPayload(id) EXCEPT !.publicKey = "pk_other"]
PayloadWithoutKey(id) == [ValidPayload(id) EXCEPT !.publicKey = ""]
PayloadWithoutId(id) == [ValidPayload(id) EXCEPT !.transaction.id = 0]
PayloadWithoutTransaction == [transaction |-> NoData, publicKey |-> "pk_demo"]
PayloadWithoutSender(id) == [ValidPayload(id) EXCEPT !.transaction.sender = ""]
PayloadWithoutRecipient(id) ==
    [ValidPayload(id) EXCEPT !.transaction.recipient = ""]
PayloadWithTextAmount(id) ==
    [ValidPayload(id) EXCEPT !.transaction.amountType = "string"]
PayloadWithZeroAmount(id) == [ValidPayload(id) EXCEPT !.transaction.amount = 0]
PayloadWithNegativeAmount(id) ==
    [ValidPayload(id) EXCEPT !.transaction.amount = -5]

\* ids of the minted payloads held up to the camera
ScanIds == {1, 2}

EmptyText == [kind |-> "empty"]
GarbageText == [kind |-> "raw"]

ScanTexts ==
    {EmptyText, GarbageText, JSONStringify(PayloadWithoutTransaction)}
    \cup {JSONStringify(ValidPayload(id)) : id \in ScanIds}
    \cup {JSONStringify(TamperedPayload(1)), JSONStringify(PayloadWithOtherKey(1))}

\* Further texts with a part missing or an amount that is no number
IncompleteTexts ==
    {JSONStringify(PayloadWithoutKey(1)),
     JSONStringify(PayloadWithoutId(1)),
     JSONStringify(PayloadWithoutSender(1)),
     JSONStringify(PayloadWithoutRecipient(1)),
     JSONStringify(PayloadWithTextAmount(1))}

\* Texts of payloads whose amount is a number that is not positive
NonPositiveTexts ==
    {JSONStringify(PayloadWithZeroAmount(1)),
     JSONStringify(PayloadWithNegativeAmount(1))}

\* JSON.parse(data) throws on text that is not JSON
JSONParseThrows(text) == text.kind # "json"

\* The transaction object JSON.parse builds from its members; a member the
\* text leaves out reads as undefined.
ParseTransaction(members) ==
    [id |-> members.id,
     amount |-> ParseFloat(members.amount.text).val,
     amountType |-> IF members.amount.token = "numeral" THEN "number" ELSE "string",
     recipient |-> members.recipient, sender |-> members.sender,
     timestamp |-> members.timestamp, description |-> members.description,
     status |-> members.status,
     signature |-> IF "signature" \in DOMAIN members
                   THEN members.signature ELSE NoSig]

JSONParse(text) ==
    [transaction |-> IF "transaction" \in DOMAIN text.value
                     THEN ParseTransaction(text.value.transaction)
                     ELSE NoData,
     publicKey |-> text.value.publicKey]

\* The structural checks of handleScan (101-110); 0 stands for a missing id.
StructurallyValid(parsedData) ==
    /\ parsedData.transaction # NoData
    /\ parsedData.publicKey # ""
    /\ parsedData.transaction.id # 0
    /\ parsedData.transaction.amountType = "number"
    /\ parsedData.transaction.sender # ""
    /\ parsedData.transaction.recipient # ""

\* checkCameraPermission (44-54) and, when granted, the effect that calls
\* startScanning (38-42, 56-78); readerStarts tells whether
\* decodeFromVideoDevice resolves or throws.
CheckCameraPermission(granted, readerStarts) ==
    /\ cameraPermission = "unknown"
    /\ IF ~granted
       THEN /\ cameraPermission' = "denied"
            /\ errorMessage' = MsgCameraDenied
            /\ UNCHANGED <<processingStatus, controlsRef>>
       ELSE /\ cameraPermission' = "granted"
            /\ IF scanning /\ readerStarts
               THEN /\ controlsRef' = TRUE
                    /\ UNCHANGED <<processingStatus, errorMessage>>
               ELSE IF scanning
               THEN /\ errorMessage' = MsgScannerFailed
                    /\ processingStatus' = "error"
                    /\ UNCHANGED controlsRef
               ELSE UNCHANGED <<processingStatus, errorMessage, controlsRef>>
    /\ UNCHANGED <<scanning, scannedData, password, runs, started, savedTx,
                   ledger, syncCalls, busVars, genVars, isOnline>>

\* handleScan (80-122), the callback of the reader startScanning started;
\* the reader is stopped only when the component unmounts (29-36)
HandleScan(text) ==
    /\ controlsRef
    /\ IF text = EmptyText
       THEN UNCHANGED <<scannedData, scanning, processingStatus, errorMessage>>
       ELSE IF JSONParseThrows(text)
       THEN /\ errorMessage' = MsgInvalidFormat
            /\ processingStatus' = "error"
            /\ scanning' = FALSE
            /\ UNCHANGED scannedData
       ELSE IF ~StructurallyValid(JSONParse(text))
       THEN /\ errorMessage' = MsgInvalidFormat
            /\ processingStatus' = "error"
            /\ scanning' = FALSE
            /\ UNCHANGED scannedData
       ELSE /\ scannedData' = JSONParse(text)
            /\ scanning' = FALSE
            /\ processingStatus' = "password_required"
            /\ UNCHANGED errorMessage
    /\ UNCHANGED <<cameraPermission, password, controlsRef, runs, started,
                   savedTx, ledger, syncCalls, busVars, genVars, isOnline>>

\* The password form is the branch rendered when the video is not and the
\* status is password_required (234, 265).
PasswordFormRendered == ~scanning /\ processingStatus = "password_required"

\* onChange of the password input (278)
SetPassword(p) ==
    /\ PasswordFormRendered
    /\ password # p
    /\ password' = p
    /\ UNCHANGED <<scanning, scannedData, processingStatus, errorMessage,
                   cameraPermission, controlsRef, runs, started, savedTx,
                   ledger, syncCalls, busVars, genVars, isOnline>>

\* A run of processTransaction suspended at its first await (163-171)
NewRun(data, pw) ==
    [data |-> data, pc |-> "verifying", credential |-> pw, call |-> 0]

\* handlePasswordSubmit accepting any non-empty password
HandlePasswordSubmitAnyPassword ==
    /\ PasswordFormRendered
    /\ IF password # ""
       THEN /\ started < MaxRuns
            /\ processingStatus' = "verifying"
            /\ IF scannedData # NoData
               THEN /\ runs' = Append(runs, NewRun(scannedData, password))
                    /\ started' = started + 1
               ELSE UNCHANGED <<runs, started>>
            /\ UNCHANGED errorMessage
       ELSE /\ errorMessage' = MsgInvalidPassword
            /\ processingStatus' = "error"
            /\ UNCHANGED <<runs, started>>
    /\ UNCHANGED <<scanning, scannedData, cameraPermission, password,
                   controlsRef, savedTx, ledger, syncCalls, busVars, genVars,
                   isOnline>>

\* handlePasswordSubmit (146-161) with the synchronous start of
\* processTransaction
HandlePasswordSubmit ==
    /\ PasswordFormRendered
    /\ IF password = CorrectPassword
       THEN /\ started < MaxRuns
            /\ processingStatus' = "verifying"
            /\ IF scannedData # NoData
               THEN /\ runs' = Append(runs, NewRun(scannedData, password))
                    /\ started' = started + 1
               ELSE UNCHANGED <<runs, started>>
            /\ UNCHANGED errorMessage
       ELSE /\ errorMessage' = MsgInvalidPassword
            /\ processingStatus' = "error"
            /\ UNCHANGED <<runs, started>>
    /\ UNCHANGED <<scanning, scannedData, cameraPermission, password,
                   controlsRef, savedTx, ledger, syncCalls, busVars, genVars,
                   isOnline>>

RemoveAt(s, i) == SubSeq(s, 1, i - 1) \o SubSeq(s, i + 1, Len(s))

RunIsValid(r) ==
    verifySignature(r.data.transaction, r.data.transaction.signature,
                    r.data.publicKey)

\* updateCredits(transaction): one credit entry appended to the ledger
LedgerEntry(tx) ==
    [amount |-> tx.amount, direction |-> "credit", transactionId |-> tx.id,
     description |-> tx.description]

\* syncTransactionToBlockchain(transaction) called and not yet settled
SyncCall(tx) == [transactionId |-> tx.id, result |-> "pending"]

\* The verification step going on to storing whatever verifySignature says
ProcVerifySkipsCheck(i) ==
    /\ i \in 1..Len(runs)
    /\ runs[i].pc = "verifying"
    /\ processingStatus' = "storing"
    /\ runs' = [runs EXCEPT ![i].pc = "storing"]
    /\ UNCHANGED <<errorMessage, scanning, scannedData, cameraPermission,
                   password, controlsRef, started, savedTx, ledger, syncCalls,
                   busVars, genVars, isOnline>>

\* processTransaction after its first await: verifySignature and the
\* branch on its result (173-187)
ProcVerify(i) ==
    /\ i \in 1..Len(runs)
    /\ runs[i].pc = "verifying"
    /\ IF ~RunIsValid(runs[i])
       THEN /\ processingStatus' = "error"
            /\ errorMessage' = MsgInvalidSignature
            /\ runs' = RemoveAt(runs, i)
       ELSE /\ processingStatus' = "storing"
            /\ runs' = [runs EXCEPT ![i].pc = "storing"]
            /\ UNCHANGED errorMessage
    /\ UNCHANGED <<scanning, scannedData, cameraPermission, password,
                   controlsRef, started, savedTx, ledger, syncCalls, busVars,
                   genVars, isOnline>>

\* The commit step entering syncing whatever the network state is
ProcStoreAlwaysSyncs(i, outcome) ==
    /\ i \in 1..Len(runs)
    /\ runs[i].pc = "storing"
    /\ outcome = "ok"
    /\ savedTx' = Append(savedTx, runs[i].data.transaction)
    /\ ledger' = Append(ledger, LedgerEntry(runs[i].data.transaction))
    /\ processingStatus' = "syncing"
    /\ syncCalls' = Append(syncCalls, SyncCall(runs[i].data.transaction))
    /\ runs' = [runs EXCEPT ![i].pc = "syncing", ![i].call = Len(syncCalls) + 1]
    /\ UNCHANGED <<errorMessage, scanning, scannedData, cameraPermission,
                   password, controlsRef, started, busVars, genVars, isOnline>>

\* The commit step saving the transaction without crediting it
ProcStoreSkipsCredit(i, outcome) ==
    /\ i \in 1..Len(runs)
    /\ runs[i].pc = "storing"
    /\ outcome = "ok"
    /\ savedTx' = Append(savedTx, runs[i].data.transaction)
    /\ IF isOnline
       THEN /\ processingStatus' = "syncing"
            /\ syncCalls' = Append(syncCalls, SyncCall(runs[i].data.transaction))
            /\ runs' = [runs EXCEPT ![i].pc = "syncing",
                                    ![i].call = Len(syncCalls) + 1]
       ELSE /\ processingStatus' = "complete"
            /\ runs' = RemoveAt(runs, i)
            /\ UNCHANGED syncCalls
    /\ UNCHANGED <<ledger, errorMessage, scanning, scannedData,
                   cameraPermission, password, controlsRef, started, busVars,
                   genVars, isOnline>>

\* processTransaction after its second await (189-200, 202, 210-213):
\* saveTransaction, updateCredits, getNetworkState and either the call of
\* syncTransactionToBlockchain or complete; outcome says whether one of the
\* two storage calls throws.
ProcStore(i, outcome) ==
    /\ i \in 1..Len(runs)
    /\ runs[i].pc = "storing"
    /\ CASE outcome = "saveThrows" ->
              /\ processingStatus' = "error"
              /\ errorMessage' = MsgProcessingFailed
              /\ runs' = RemoveAt(runs, i)
              /\ UNCHANGED <<savedTx, ledger, syncCalls>>
         [] outcome = "creditsThrows" ->
              /\ savedTx' = Append(savedTx, runs[i].data.transaction)
              /\ processingStatus' = "error"
              /\ errorMessage' = MsgProcessingFailed
              /\ runs' = RemoveAt(runs, i)
              /\ UNCHANGED <<ledger, syncCalls>>
         [] OTHER ->
              /\ savedTx' = Append(savedTx, runs[i].data.transaction)
              /\ ledger' = Append(ledger, LedgerEntry(runs[i].data.transaction))
              /\ IF isOnline
                 THEN /\ processingStatus' = "syncing"
                      /\ syncCalls' = Append(syncCalls, SyncCall(runs[i].data.transaction))
                      /\ runs' = [runs EXCEPT ![i].pc = "syncing",
                                              ![i].call = Len(syncCalls) + 1]
                 ELSE /\ processingStatus' = "complete"
                      /\ runs' = RemoveAt(runs, i)
                      /\ UNCHANGED syncCalls
              /\ UNCHANGED errorMessage
    /\ UNCHANGED <<scanning, scannedData, cameraPermission, password,
                   controlsRef, started, busVars, genVars, isOnline>>

StoreOutcomes == {"ok", "saveThrows", "creditsThrows"}

\* The continuation treating a reported sync failure as a processing error
ProcSyncDoneFailureIsError(i, result) ==
    /\ i \in 1..Len(runs)
    /\ runs[i].pc = "syncing"
    /\ IF result = "failure"
       THEN /\ processingStatus' = "error"
            /\ errorMessage' = MsgProcessingFailed
       ELSE /\ processingStatus' = "complete"
            /\ UNCHANGED errorMessage
    /\ runs' = RemoveAt(runs, i)
    /\ syncCalls' = [syncCalls EXCEPT ![runs[i].call].result = result]
    /\ UNCHANGED <<scanning, scannedData, cameraPermission,
                   password, controlsRef, started, savedTx, ledger,
                   busVars, genVars, isOnline>>

\* The continuation calling the sync collaborator again after a failure
ProcSyncDoneRetries(i, result) ==
    /\ i \in 1..Len(runs)
    /\ runs[i].pc = "syncing"
    /\ IF result = "failure" /\ Len(syncCalls) < 2 * MaxRuns
       THEN /\ syncCalls' =
                  Append([syncCalls EXCEPT ![runs[i].call].result = result],
                         SyncCall(runs[i].data.transaction))
            /\ runs' = [runs EXCEPT ![i].call = Len(syncCalls) + 1]
            /\ UNCHANGED processingStatus
       ELSE /\ processingStatus' = "complete"
            /\ runs' = RemoveAt(runs, i)
            /\ syncCalls' = [syncCalls EXCEPT ![runs[i].call].result = result]
    /\ UNCHANGED <<errorMessage, scanning, scannedData, cameraPermission,
                   password, controlsRef, started, savedTx, ledger,
                   busVars, genVars, isOnline>>

\* processTransaction after await syncTransactionToBlockchain (199-202);
\* the collaborator reports success or failure as its result, which the
\* code does not read.
ProcSyncDone(i, result) ==
    /\ i \in 1..Len(runs)
    /\ runs[i].pc = "syncing"
    /\ processingStatus' = "complete"
    /\ runs' = RemoveAt(runs, i)
    /\ syncCalls' = [syncCalls EXCEPT ![runs[i].call].result = result]
    /\ UNCHANGED <<errorMessage, scanning, scannedData, cameraPermission,
                   password, controlsRef, started, savedTx, ledger,
                   busVars, genVars, isOnline>>

SyncResults == {"success", "failure"}

\* The "Scan Another" button: rendered in the status card, enabled in
\* complete and error (370-377)
ResetButtonEnabled ==
    /\ ~scanning
    /\ processingStatus \in {"complete", "error"}

\* resetScanner (223-228); its startScanning call returns at once because
\* the video element is rendered only while scanning (57, 234-246)
ResetScanner ==
    /\ ResetButtonEnabled
    /\ scannedData' = NoData
    /\ processingStatus' = "idle"
    /\ errorMessage' = NoMessage
    /\ UNCHANGED <<scanning, cameraPermission, password, controlsRef, runs,
                   started, savedTx, ledger, syncCalls, busVars, genVars,
                   isOnline>>

\* The connectivity collaborator changing the reachability flag
NetworkChange ==
    /\ isOnline' = ~isOnline
    /\ UNCHANGED <<busVars, genVars, scanVars>>

\* ------------------------------------------------------- specifications
Init ==
    /\ eventListeners = [k \in Kinds |->
            IF k = "paymentReceived" THEN <<"handlePaymentReceived">> ELSE <<>>]
    /\ localStorage = <<>>
    /\ cleanupTimers = <<>>
    /\ subscriptions = <<>>
    /\ calls = <<>>
    /\ now = 0
    /\ emitLog = [k \in Keys |-> 0]
    /\ envEvents = 0
    /\ qrData = NoData
    /\ isGenerating = FALSE
    /\ pendingQr = NoData
    /\ timeLeft = ValidityWindow
    /\ isExpired = FALSE
    /\ paymentReceived = FALSE
    /\ paymentDetails = NoData
    /\ soundEnabled = TRUE
    /\ timerRef = FALSE
    /\ liveIntervals = 0
    /\ nextId = 0
    /\ genStore = [id \in TxIds |-> "absent"]
    /\ receivedHistory = <<>>
    /\ scanning = TRUE
    /\ scannedData = NoData
    /\ processingStatus = "idle"
    /\ errorMessage = NoMessage
    /\ cameraPermission = "unknown"
    /\ password = ""
    /\ controlsRef = FALSE
    /\ runs = <<>>
    /\ started = 0
    /\ savedTx = <<>>
    /\ ledger = <<>>
    /\ syncCalls = <<>>
    /\ isOnline \in BOOLEAN

NextGenerator ==
    \/ \E a \in AmountInputs, r \in RecipientInputs : HandleGenerate(a, r)
    \/ GenerateTimeout
    \/ Tick
    \/ HandleReset
    \/ ToggleSound
    \/ \E id \in TxIds : EmitPaymentReceived(id)
    \/ \E id \in TxIds : CrossTabPaymentReceived(id)

\* Events published on the bus: one for transaction 1, one without a
\* transaction id.
BusEvents == {PaymentEvent(1), PaymentEvent(NoId)}
BusKinds == {"paymentReceived", "qrExpired"}

\* subscribe calls of the other registrants
SubscribeCalls ==
    {<<"paymentReceived", "f">>, <<"paymentReceived", "boom">>,
     <<"qrExpired", "f">>}

\* emit called by another publisher
PublisherEmit(kind, data) ==
    /\ envEvents < MaxPublishes
    /\ Emit(kind, data)

\* A record of another context's publisher replayed
PublisherReplay(kind, data) ==
    /\ envEvents < MaxPublishes
    /\ StorageEvent(kind, data)

\* The event manager used by other registrants and publishers
NextBus ==
    \/ \E sc \in SubscribeCalls : Subscribe(sc[1], sc[2])
    \/ \E i \in 1..MaxSubs : Unsubscribe(i)
    \/ \E kind \in BusKinds, data \in BusEvents : PublisherEmit(kind, data)
    \/ \E kind \in BusKinds, data \in BusEvents : PublisherReplay(kind, data)

\* Closures a removal timeout can hold
TimerClosures ==
    {TimerClosure(kind, data, t + CleanupDelay) :
        kind \in BusKinds, data \in BusEvents, t \in Times}

\* Publishers, the removal timeouts of the durable records and the clock
NextStore ==
    \/ \E kind \in BusKinds, data \in BusEvents : Emit(kind, data)
    \/ \E c \in TimerClosures : CleanupRecord(c)
    \/ AdvanceClock

NextScanner ==
    \/ \E g \in BOOLEAN, r \in BOOLEAN : CheckCameraPermission(g, r)
    \/ \E t \in ScanTexts : HandleScan(t)
    \/ \E p \in Passwords : SetPassword(p)
    \/ HandlePasswordSubmit
    \/ \E i \in 1..MaxRuns : ProcVerify(i)
    \/ \E i \in 1..MaxRuns, o \in StoreOutcomes : ProcStore(i, o)
    \/ \E i \in 1..MaxRuns, res \in SyncResults : ProcSyncDone(i, res)
    \/ ResetScanner
    \/ NetworkChange

\* The receiver in front of a scan source that also shows payloads minted
\* elsewhere: incomplete ones and ones with an amount of zero or below
NextDecode ==
    \/ NextScanner
    \/ \E t \in IncompleteTexts \cup NonPositiveTexts : HandleScan(t)

Next == NextGenerator \/ NextDecode \/ NextBus \/ NextStore

\* Both roles in one execution context
Spec == Init /\ [][Next]_vars

\* The sender role with the event bus
SpecGenerator == Init /\ [][NextGenerator]_vars

\* The event manager with the generator idle
SpecBus == Init /\ [][NextBus]_vars

\* The durable records of the event manager
SpecStore == Init /\ [][NextStore]_vars

\* The receiver role
SpecScanner == Init /\ [][NextScanner]_vars

SpecDecode == Init /\ [][NextDecode]_vars

\* The QR image is rendered while the payload is neither paid nor expired
\* (403, 471, 529); the receiver's camera pointed at it reads its text.
QrImageRendered == qrData # NoData /\ ~paymentReceived /\ ~isExpired

ScanDisplayedQr ==
    /\ QrImageRendered
    /\ HandleScan(JSONStringify(qrData))

NextRelay ==
    \/ \E a \in AmountInputs, r \in RecipientInputs : HandleGenerate(a, r)
    \/ GenerateTimeout
    \/ Tick
    \/ HandleReset
    \/ \E g \in BOOLEAN, r \in BOOLEAN : CheckCameraPermission(g, r)
    \/ ScanDisplayedQr
    \/ \E p \in Passwords : SetPassword(p)
    \/ HandlePasswordSubmit
    \/ \E i \in 1..MaxRuns : ProcVerify(i)
    \/ \E i \in 1..MaxRuns, o \in StoreOutcomes : ProcStore(i, o)
    \/ \E i \in 1..MaxRuns, res \in SyncResults : ProcSyncDone(i, res)
    \/ ResetScanner

\* A sender and a receiver in one execution context, the receiver scanning
\* what the sender displays; no other component publishes events.
SpecRelay == Init /\ [][NextRelay]_vars

\* The sender minting and displaying payloads and the receiver decoding
\* what is displayed, up to the credential prompt
NextRoundTrip ==
    \/ \E a \in AmountInputs, r \in RecipientInputs : HandleGenerate(a, r)
    \/ GenerateTimeout
    \/ Tick
    \/ HandleReset
    \/ \E g \in BOOLEAN, r \in BOOLEAN : CheckCameraPermission(g, r)
    \/ ScanDisplayedQr
    \/ \E p \in Passwords : SetPassword(p)

SpecRoundTrip == Init /\ [][NextRoundTrip]_vars

\* The continuation of a run whose storage calls succeed
ProcStoreOk(i) == ProcStore(i, "ok")

\* A sender and a receiver whose storage collaborator does not fail: the
\* receiver scans what the sender displays and goes through the credential
\* prompt, the verification, the commit and the sync.
NextHappyPath ==
    \/ \E a \in AmountInputs, r \in RecipientInputs : HandleGenerate(a, r)
    \/ GenerateTimeout
    \/ HandleReset
    \/ \E g \in BOOLEAN, r \in BOOLEAN : CheckCameraPermission(g, r)
    \/ ScanDisplayedQr
    \/ \E p \in Passwords : SetPassword(p)
    \/ HandlePasswordSubmit
    \/ \E i \in 1..MaxRuns : ProcVerify(i)
    \/ \E i \in 1..MaxRuns : ProcStoreOk(i)
    \/ \E i \in 1..MaxRuns, res \in SyncResults : ProcSyncDone(i, res)

SpecHappyPath == Init /\ [][NextHappyPath]_vars

\* The timeouts processTransaction awaits elapse and the sync collaborator
\* settles its promise.
SpecHappyPathFair ==
    /\ SpecHappyPath
    /\ WF_vars(\E i \in 1..MaxRuns : ProcVerify(i))
    /\ WF_vars(\E i \in 1..MaxRuns : ProcStoreOk(i))
    /\ WF_vars(\E i \in 1..MaxRuns, res \in SyncResults : ProcSyncDone(i, res))

\* Changes of localStorage made by another context: a record written, the
\* record removed by its timeout, a record key carrying text that is not
\* JSON or the empty text, another key carrying the text of a record, and
\* the store cleared.
StorageEvents ==
    {[key |-> RecordKey(kind, PaymentEvent(1), 0),
      newValue |-> StoredText(kind, PaymentEvent(1), 0)] : kind \in BusKinds}
    \cup {[key |-> RecordKey(kind, PaymentEvent(1), 0), newValue |-> v] :
              kind \in BusKinds, v \in {NullValue, [kind |-> "empty"], [kind |-> "raw"]}}
    \cup {[key |-> UnrelatedKey,
           newValue |-> StoredText("paymentReceived", PaymentEvent(1), 0)],
          [key |-> NullKey, newValue |-> NullValue]}

\* The other registrants subscribe when the page loads, before changes of
\* other contexts arrive.
SubscribeAtLoad(kind, cb) ==
    /\ envEvents = 0
    /\ Subscribe(kind, cb)

\* A context whose generator displays payloads and whose storage listener
\* is told of the changes other contexts make
NextCrossTab ==
    \/ \E sc \in SubscribeCalls : SubscribeAtLoad(sc[1], sc[2])
    \/ \E a \in AmountInputs, r \in RecipientInputs : HandleGenerate(a, r)
    \/ GenerateTimeout
    \/ \E event \in StorageEvents : StorageListener(event)

SpecCrossTab == Init /\ [][NextCrossTab]_vars

\* The interval fires every second while it is live.
SpecGeneratorFair == SpecGenerator /\ WF_vars(Tick)

\* ----------------------------------------------------------------- claims
ExpiredKey(id) == <<"qrExpired", id>>
ReceivedKey(id) == <<"paymentReceived", id>>

\* C1: for one payload, completed (paymentReceived) and expired are
\* mutually exclusive: no payload has both its qrExpired event published and
\* paymentReceived set, so an event arriving after expiry is a no-op.
C1_OutcomesMutuallyExclusive ==
    (qrData # NoData /\ paymentReceived)
        => emitLog[ExpiredKey(qrData.transaction.id)] = 0

\* C2: whenever the receiver is complete for a committed transaction, a
\* paymentReceived event with that transaction's id has been published.
C2_CompletePublishesPaymentReceived ==
    (/\ processingStatus = "complete"
     /\ scannedData # NoData
     /\ \E k \in 1..Len(ledger) :
            ledger[k].transactionId = scannedData.transaction.id)
        => emitLog[ReceivedKey(scannedData.transaction.id)] > 0

\* C3: text delivered by the scan source while the receiver is not scanning
\* changes neither the stored payload nor the processing status.
C3_ScanIgnoredWhenNotScanning ==
    [][\A t \in ScanTexts :
          (~scanning /\ HandleScan(t))
              => (scannedData' = scannedData
                  /\ processingStatus' = processingStatus)]_vars

\* C4: the ledger holds at most one credit per transaction id.
C4_OneCreditPerTransaction ==
    \A j, k \in 1..Len(ledger) :
        j # k => ledger[j].transactionId # ledger[k].transactionId

PublicKeys == {"pk_demo", "pk_other"}
CarriesValidSignature(tx) ==
    \E pk \in PublicKeys : verifySignature(tx, tx.signature, pk)

\* C5: a run whose signature check fails ends in error with the
\* signature-invalid reason and goes no further: nothing is saved, credited
\* or synced by that step, no run past verifying holds an invalid
\* signature, and every saved or credited transaction verifies.
C5_InvalidSignatureStops ==
    /\ [](/\ \A i \in 1..Len(runs) :
                runs[i].pc # "verifying" => RunIsValid(runs[i])
          /\ \A k \in 1..Len(savedTx) : CarriesValidSignature(savedTx[k])
          /\ \A k \in 1..Len(ledger) :
                \E tx \in {savedTx[j] : j \in 1..Len(savedTx)} :
                    tx.id = ledger[k].transactionId /\ tx.amount = ledger[k].amount)
    /\ [][\A i \in 1..Len(runs) :
            (runs[i].pc = "verifying" /\ ~RunIsValid(runs[i]) /\ ProcVerify(i))
                => (/\ processingStatus' = "error"
                    /\ errorMessage' = MsgInvalidSignature
                    /\ runs' = RemoveAt(runs, i)
                    /\ UNCHANGED <<savedTx, ledger, syncCalls>>)]_vars

C5_Witness ==
    /\ processingStatus = "error"
    /\ errorMessage = MsgInvalidSignature
    /\ scannedData = TamperedPayload(1)
    /\ runs = <<>>
    /\ savedTx = <<>>

\* C6: a commit is made only by a run that was started with the matching
\* credential for the payload stored at that moment and whose signature
\* verified; a run starts only on a credential submission.
C6_CommitNeedsCredentialAndSignature ==
    /\ [](\A i \in 1..Len(runs) : runs[i].credential = CorrectPassword)
    /\ [][Len(runs') > Len(runs)
            => (/\ PasswordFormRendered
                /\ password = CorrectPassword
                /\ runs' = Append(runs, NewRun(scannedData, password)))]_vars
    /\ [][(savedTx' # savedTx \/ ledger' # ledger)
            => \E i \in 1..Len(runs) :
                 /\ runs[i].pc = "storing"
                 /\ runs[i].credential = CorrectPassword
                 /\ RunIsValid(runs[i])
                 /\ savedTx' = Append(savedTx, runs[i].data.transaction)]_vars

C6_Witness ==
    /\ Len(savedTx) > 0
    /\ Len(ledger) > 0

\* C7: after a wrong credential put the machine in error, the correct
\* credential can be supplied against the same decoded payload.
C7_RetryAfterWrongCredential ==
    (/\ processingStatus = "error"
     /\ errorMessage = MsgInvalidPassword
     /\ scannedData # NoData
     /\ started < MaxRuns)
        => ENABLED (\/ SetPassword(CorrectPassword)
                    \/ (password = CorrectPassword /\ HandlePasswordSubmit))

C9_OfflineCommitSkipsSync ==
    [][(Len(ledger') > Len(ledger) /\ ~isOnline)
          => (/\ processingStatus' = "complete"
              /\ syncCalls' = syncCalls
              /\ savedTx'[Len(savedTx')].status = "pending"
              /\ Len(runs') = Len(runs) - 1
              /\ \A i \in 1..Len(runs') : runs'[i].pc = "syncing"
                    => \E j \in 1..Len(runs) : runs[j] = runs'[i])]_vars

C9_Witness ==
    /\ processingStatus = "complete"
    /\ ~isOnline
    /\ Len(ledger) = 1
    /\ savedTx[1].status = "pending"
    /\ syncCalls = <<>>
    /\ runs = <<>>

Armed == qrData # NoData /\ ~isExpired /\ ~paymentReceived

\* C10: an armed payload that receives no payment event before its window
\* of ValidityWindow ticks has run out becomes expired; its qrExpired event
\* is published exactly once and the countdown is then stopped.
C10_ExpiresOnceAfterWindow ==
    /\ [](/\ \A id \in TxIds : emitLog[ExpiredKey(id)] <= 1
          /\ timerRef => (Armed /\ timeLeft >= 1)
          /\ Armed => emitLog[ExpiredKey(qrData.transaction.id)] = 0
          /\ (qrData # NoData /\ isExpired)
                => (/\ emitLog[ExpiredKey(qrData.transaction.id)] = 1
                    /\ ~timerRef
                    /\ timeLeft = 0))
    /\ \A id \in TxIds :
          (Armed /\ qrData.transaction.id = id)
              ~> (\/ emitLog[ExpiredKey(id)] = 1
                  \/ paymentReceived
                  \/ qrData = NoData)

C10_Witness ==
    /\ qrData # NoData
    /\ isExpired
    /\ ~paymentReceived
    /\ timeLeft = 0
    /\ envEvents = 0
    /\ emitLog[ExpiredKey(qrData.transaction.id)] = 1

\* A payment_received event for the payload on display is delivered, by a
\* local publish or by the replay of another context's record.
DeliverPaymentReceived(id) ==
    EmitPaymentReceived(id) \/ CrossTabPaymentReceived(id)

\* C11: a matching payment_received event delivered while the payload is
\* armed completes it and stops the countdown in the same step, and from a
\* payload completed before its expiry no qrExpired event for that payload
\* is published any more.
C11_PaymentBeatsExpiry ==
    /\ [][\A id \in TxIds :
            (Armed /\ qrData.transaction.id = id /\ DeliverPaymentReceived(id))
                => (/\ paymentReceived'
                    /\ ~isExpired'
                    /\ ~timerRef'
                    /\ liveIntervals' = 0)]_vars
    /\ \A id \in TxIds :
          []((/\ qrData # NoData
              /\ qrData.transaction.id = id
              /\ paymentReceived
              /\ emitLog[ExpiredKey(id)] = 0)
                => [](emitLog[ExpiredKey(id)] = 0))

\* Paid one tick before the window ends.
C11_Witness ==
    /\ qrData # NoData
    /\ paymentReceived
    /\ ~isExpired
    /\ timeLeft = 1
    /\ liveIntervals = 0
    /\ emitLog[ExpiredKey(qrData.transaction.id)] = 0

\* C12: at most one interval is live, it is the one timerRef holds, and it
\* is live only while a payload exists that is neither expired nor paid; no
\* operation leaves more than one interval behind.
C12_AtMostOneTimer ==
    /\ liveIntervals \in {0, 1}
    /\ timerRef <=> (liveIntervals = 1)
    /\ (liveIntervals > 0) => Armed

\* A second payload counts down after the first was reset while armed, and
\* the sound setting has been toggled on the way.
C12_Witness ==
    /\ liveIntervals = 1
    /\ qrData # NoData
    /\ qrData.transaction.id = 2
    /\ ~soundEnabled
    /\ timeLeft < ValidityWindow

\* Scanned texts by the reason the decode step has to reject them
NotWellFormedTexts == {GarbageText}
MissingFieldTexts ==
    {JSONStringify(PayloadWithoutTransaction),
     JSONStringify(PayloadWithoutKey(1)),
     JSONStringify(PayloadWithoutId(1)),
     JSONStringify(PayloadWithoutSender(1)),
     JSONStringify(PayloadWithoutRecipient(1))}
BadAmountTexts ==
    {JSONStringify(PayloadWithTextAmount(1))} \cup NonPositiveTexts

\* C13: a scanned text that is not well-formed, lacks the transaction, the
\* public key, the id, the sender or the recipient, or whose amount is not a
\* number or not positive, puts the receiver in error: no payload is stored
\* and the credential prompt is not shown.
C13_DecodeRejectsInvalidPayloads ==
    [][\A t \in NotWellFormedTexts \cup MissingFieldTexts \cup BadAmountTexts :
          HandleScan(t)
              => (/\ processingStatus' = "error"
                  /\ scannedData' = scannedData
                  /\ ~PasswordFormRendered')]_vars

Messages ==
    {MsgCameraDenied, MsgScannerFailed, MsgInvalidFormat, MsgInvalidPassword,
     MsgInvalidSignature, MsgProcessingFailed, NoMessage}

\* C14: no reason is shown both for a text that is not well-formed and for
\* a well-formed text with a required field missing.
C14_DecodeReasonsDistinct ==
    \A m \in Messages :
        ~(/\ \E t \in NotWellFormedTexts :
                ENABLED (HandleScan(t) /\ processingStatus' = "error"
                         /\ errorMessage' = m)
          /\ \E u \in MissingFieldTexts :
                ENABLED (HandleScan(u) /\ processingStatus' = "error"
                         /\ errorMessage' = m))

\* C15: the text of every payload the generator holds parses back to an
\* equal payload that passes the structural checks, and the receiver
\* scanning the displayed image stores that payload and asks for the
\* credential.
C15_RoundTrip ==
    /\ [](\A qr \in {qrData, pendingQr} \ {NoData} :
            /\ ~JSONParseThrows(JSONStringify(qr))
            /\ JSONParse(JSONStringify(qr)) = qr
            /\ StructurallyValid(JSONParse(JSONStringify(qr))))
    /\ [][(scanning /\ ScanDisplayedQr)
            => (/\ scannedData' = qrData
                /\ ~scanning'
                /\ processingStatus' = "password_required")]_vars

C15_Witness ==
    /\ qrData # NoData
    /\ scannedData = qrData
    /\ ~scanning
    /\ processingStatus = "password_required"
    /\ runs = <<>>
    /\ started = 0

\* ------------------------------------------------------ event bus claims
Registered(kind, cb) ==
    \E k \in 1..Len(eventListeners[kind]) : eventListeners[kind][k] = cb

\* A registration whose own capability has not been invoked
Live(i) == i \in 1..Len(subscriptions) /\ ~subscriptions[i].revoked

HasLiveRegistration(kind, cb) ==
    \E i \in 1..Len(subscriptions) :
        /\ Live(i)
        /\ subscriptions[i].kind = kind
        /\ subscriptions[i].callback = cb

Publish(kind, data) == Emit(kind, data) \/ StorageEvent(kind, data)

\* C16: the step of a capability leaves its handler out of the listeners of
\* its kind; a handler that an emit or a replay invokes holds a registration
\* whose capability has not been invoked; a capability that was invoked can
\* be invoked again, and then no handler is called and no record written.
C16_UnsubscribedHandlerNotInvoked ==
    /\ [][\A i \in 1..MaxSubs :
            Unsubscribe(i)
                => (/\ ~Registered(subscriptions[i].kind,
                                   subscriptions[i].callback)'
                    /\ UNCHANGED <<calls, localStorage, emitLog>>)]_vars
    /\ [][\A kind \in BusKinds, data \in BusEvents :
            Publish(kind, data)
                => \A k \in 1..Len(calls') :
                      HasLiveRegistration(kind, calls'[k].callback)]_vars
    /\ [](\A i \in 1..Len(subscriptions) :
            subscriptions[i].revoked => ENABLED Unsubscribe(i))

\* f was unsubscribed, boom was not, and the publish reached boom only.
C16_Witness ==
    /\ Len(subscriptions) = 2
    /\ subscriptions[1] =
          [kind |-> "paymentReceived", callback |-> "f", revoked |-> TRUE]
    /\ subscriptions[2] =
          [kind |-> "paymentReceived", callback |-> "boom", revoked |-> FALSE]
    /\ Len(calls) = 1
    /\ calls[1].callback = "boom"

\* C17: a capability removes its own registration only: the handler of
\* every registration whose capability was not invoked is among the
\* listeners of its kind.
C17_CapabilityRemovesOwnRegistrationOnly ==
    \A i \in 1..Len(subscriptions) :
        Live(i) => Registered(subscriptions[i].kind, subscriptions[i].callback)

\* The handlers of the live registrations of a kind, in registration order
RECURSIVE LiveHandlers(_, _)
LiveHandlers(kind, n) ==
    IF n = 0 THEN <<>>
    ELSE IF Live(n) /\ subscriptions[n].kind = kind
    THEN SetAdd(LiveHandlers(kind, n - 1), subscriptions[n].callback)
    ELSE LiveHandlers(kind, n - 1)

ExpectedCalls(handlers, data) ==
    [k \in 1..Len(handlers) |->
        [callback |-> handlers[k], data |-> data, raised |-> Raises(handlers[k])]]

\* C18: an emit invokes, before it returns, the handler of every live
\* registration of the published kind, in registration order, each with the
\* published event, and no other handler.
C18_PublishInvokesRegisteredInOrder ==
    [][\A kind \in BusKinds, data \in BusEvents :
          Emit(kind, data)
              => calls' = ExpectedCalls(
                              LiveHandlers(kind, Len(subscriptions)), data)]_vars

\* The other registrants' callbacks among the listeners of a kind
OtherListeners(kind) ==
    SelectSeq(ListenersOf(kind), LAMBDA cb : cb \in Callbacks)

\* C19: when a listener throws, the listeners after it are invoked all the
\* same, each with the event; the emit goes on to write the durable record
\* and to schedule its removal.
C19_RaisingHandlerIsIsolated ==
    [][\A kind \in BusKinds, data \in BusEvents :
          /\ (Publish(kind, data) /\ Registered(kind, "boom"))
                => (/\ calls' = ExpectedCalls(OtherListeners(kind), data)
                    /\ \E k \in 1..Len(calls') : calls'[k].raised)
          /\ (Emit(kind, data) /\ Registered(kind, "boom"))
                => (/\ StorageKey(kind, data, now) \in DOMAIN localStorage'
                    /\ localStorage'[StorageKey(kind, data, now)].data = data
                    /\ emitLog'[<<kind, data.transactionId>>]
                          = emitLog[<<kind, data.transactionId>>] + 1
                    /\ TimerClosure(kind, data, now + CleanupDelay)
                          \in DOMAIN cleanupTimers')]_vars

\* boom threw, f registered after it was invoked, the record is stored.
C19_Witness ==
    /\ eventListeners["paymentReceived"] = <<"handlePaymentReceived", "boom", "f">>
    /\ Len(calls) = 2
    /\ calls[1].callback = "boom" /\ calls[1].raised
    /\ calls[2].callback = "f" /\ calls[2].data = PaymentEvent(1)
    /\ StorageKey("paymentReceived", PaymentEvent(1), now) \in DOMAIN localStorage

\* C20: no record an emit wrote is in the store once more than the horizon
\* has passed since it was written.
C20_RecordsDeletedAfterHorizon ==
    \A key \in DOMAIN localStorage :
        now <= localStorage[key].timestamp + CleanupDelay

\* --------------------------------------------------- cross-context relay
\* C21: the replay of a record another context wrote invokes the listeners
\* of the record's kind, each with the record's data, and writes no durable
\* record: the store, the removal timeouts, the emit log and the listeners
\* are as before, so the replay causes no storage change another context
\* could observe.
C21_RelayNeverWritesRecords ==
    [][\A kind \in BusKinds, data \in BusEvents :
          StorageEvent(kind, data)
              => (/\ calls' = ExpectedCalls(OtherListeners(kind), data)
                  /\ UNCHANGED <<localStorage, cleanupTimers, emitLog,
                                 eventListeners>>)]_vars

\* A replay reached a registered callback and the store is still empty.
C21_Witness ==
    /\ envEvents = 1
    /\ Len(calls) >= 1
    /\ calls[1].data = PaymentEvent(1)
    /\ localStorage = <<>>
    /\ cleanupTimers = <<>>

\* One delivery of a payment_received event to the generator, followed by
\* the re-render
DeliveredOnce(id) == TimerEffect(handlePaymentReceived(GenState, PaymentEvent(id)))

NoDuplicates(s) == \A j, k \in 1..Len(s) : j # k => s[j] # s[k]

\* C22: a payment_received event that reaches the generator's handler twice
\* (through the bus subscription and the window event of one emit, or as a
\* duplicate from another context) leaves the generator as one delivery does,
\* and no transaction is in the received history more than once.
C22_DuplicateDeliveryIsIdempotent ==
    /\ [][\A id \in TxIds :
            EmitPaymentReceived(id) => GenState' = DeliveredOnce(id)]_vars
    /\ [][\A id \in TxIds :
            (paymentReceived /\ DeliverPaymentReceived(id))
                => GenState' = GenState]_vars
    /\ [](NoDuplicates(receivedHistory))


\* ------------------------------------------------------- receiver claims
\* C23: the reset leaves the receiver idle with no stored payload and no
\* error reason, and scanning again.
C23_ResetRearmsScanning ==
    [][ResetScanner
          => (/\ processingStatus' = "idle"
              /\ scannedData' = NoData
              /\ errorMessage' = NoMessage
              /\ scanning')]_vars


\* C24: once the status is complete or error, the only step that changes it
\* is the reset, which makes it idle; neither a scan callback nor a
\* credential submission nor the continuation of a run does.
C24_TerminalUntilReset ==
    [][(/\ processingStatus \in {"complete", "error"}
        /\ processingStatus' # processingStatus)
          => (ResetScanner /\ processingStatus' = "idle")]_vars


SavedIds == {savedTx[k].id : k \in 1..Len(savedTx)}
CreditedIds == {ledger[k].transactionId : k \in 1..Len(ledger)}

\* C25: a transaction has its record in the store exactly when it has its
\* entry in the ledger: a commit in which a storage call fails leaves
\* neither behind.
C25_CommitAllOrNothing == SavedIds = CreditedIds


\* The run of the receiver holds the payload the sender minted under id.
RunOf(id) ==
    \E i \in 1..Len(runs) : runs[i].data = MintQrData(id, 50, "B")

Committed(id) ==
    /\ \E k \in 1..Len(savedTx) : savedTx[k] = SignedTransaction(id, 50, "B")
    /\ \E k \in 1..Len(ledger) :
          ledger[k].transactionId = id /\ ledger[k].amount = 50
                                       /\ ledger[k].direction = "credit"

\* C26: a run started with the correct credential on a payload the sender
\* minted passes the signature check, and leads to the status complete with
\* the transaction saved and a ledger credit of the payload's amount and id.
C26_HappyPathCompletes ==
    /\ [](\A i \in 1..Len(runs) : RunIsValid(runs[i]))
    /\ \A id \in TxIds :
          RunOf(id) ~> (processingStatus = "complete" /\ Committed(id))

C26_Witness ==
    /\ processingStatus = "complete"
    /\ scannedData = MintQrData(1, 50, "B")
    /\ runs = <<>>
    /\ Committed(1)
    /\ Len(syncCalls) = 1
    /\ syncCalls[1].result = "success"


\* C27: at most one run of processTransaction is suspended at an await, so
\* no run starts while another is verifying, storing or syncing.
C27_OneVerificationInFlight == Len(runs) <= 1


\* The status a run sets next when it goes on
StatusOrder == {<<"verifying", "storing">>, <<"storing", "syncing">>}

\* C28: a run starts in verifying; each of its steps either moves it from
\* verifying to storing or from storing to syncing, setting the status it
\* moves to, or ends it with the status complete (from storing or syncing)
\* or error.  The sync collaborator is called only in the step that made
\* the commit, when the network state read in that step is online, once
\* for the run: every call follows a commit and belongs to one run.
C28_StatusOrderAndSingleSync ==
    /\ [][/\ Len(runs') >= Len(runs)
             => \A i \in 1..Len(runs) :
                   \/ runs'[i] = runs[i]
                   \/ /\ <<runs[i].pc, runs'[i].pc>> \in StatusOrder
                      /\ processingStatus' = runs'[i].pc
          /\ Len(runs') > Len(runs)
             => (/\ Len(runs') = Len(runs) + 1
                 /\ runs'[Len(runs')].pc = "verifying"
                 /\ runs'[Len(runs')].call = 0
                 /\ processingStatus' = "verifying")
          /\ Len(runs') < Len(runs)
             => \E i \in 1..Len(runs) :
                   /\ runs' = RemoveAt(runs, i)
                   /\ processingStatus' \in {"complete", "error"}
                   /\ processingStatus' = "complete"
                         => runs[i].pc \in {"storing", "syncing"}
                   /\ runs[i].pc = "syncing" => processingStatus' = "complete"
          /\ Len(syncCalls') # Len(syncCalls)
             => \E i \in 1..Len(runs) :
                   /\ isOnline
                   /\ runs[i].pc = "storing"
                   /\ runs'[i].pc = "syncing"
                   /\ runs'[i].call = Len(syncCalls')
                   /\ savedTx' = Append(savedTx, runs[i].data.transaction)
                   /\ ledger' = Append(ledger, LedgerEntry(runs[i].data.transaction))
                   /\ syncCalls' = Append(syncCalls, SyncCall(runs[i].data.transaction))
         ]_vars
    /\ [](/\ Len(syncCalls) <= Len(ledger)
          /\ \A i \in 1..Len(runs) :
                /\ runs[i].pc = "syncing" <=> runs[i].call # 0
                /\ runs[i].call # 0
                      => (/\ runs[i].call \in 1..Len(syncCalls)
                          /\ syncCalls[runs[i].call].result = "pending")
          /\ \A i, j \in 1..Len(runs) :
                (i # j /\ runs[i].call # 0) => runs[i].call # runs[j].call)

\* A run that was verifying and storing is waiting for the sync call it made
\* after its commit.
C28_Witness ==
    /\ Len(runs) = 1
    /\ runs[1].pc = "syncing"
    /\ runs[1].call = 1
    /\ processingStatus = "syncing"
    /\ Len(ledger) = 1
    /\ Len(syncCalls) = 1


\* ------------------------------------------------------ generator claims
\* C29: a payment_received event for another transaction id than the one of
\* the payload on display, or delivered while there is no payload, changes
\* nothing of the generator: the payload, its armed state, the remaining
\* time, the interval, the stored statuses and the received history stay.
C29_NonMatchingEventIsNoOp ==
    [][\A id \in TxIds :
          (/\ qrData = NoData \/ qrData.transaction.id # id
           /\ DeliverPaymentReceived(id))
              => UNCHANGED genVars]_vars

\* Payload 1 is counting down after an event for transaction 2 was published.
C29_Witness ==
    /\ Armed
    /\ qrData.transaction.id = 1
    /\ emitLog[ReceivedKey(2)] = 1
    /\ emitLog[ReceivedKey(1)] = 0
    /\ liveIntervals = 1
    /\ timeLeft = ValidityWindow - 1
    /\ genStore[1] = "pending"
    /\ receivedHistory = <<>>


\* A payload as handleGenerate hands it on: positive amount, pending,
\* signed over its own fields under the key it carries.
WellMinted(qr) ==
    /\ qr.transaction.amount > 0
    /\ qr.transaction.amountType = "number"
    /\ qr.transaction.recipient # ""
    /\ qr.transaction.status = "pending"
    /\ qr.publicKey # ""
    /\ qr.transaction.signature # NoSig
    /\ verifySignature(qr.transaction, qr.transaction.signature, qr.publicKey)

\* C30: generate with an empty field or an amount that is no number above
\* zero changes nothing of the generator; a payload is minted only from
\* valid inputs, with the amount and the recipient entered; and every
\* payload, from the moment it is built and while it is on display, has a
\* positive amount, the status pending, a public key and its signature.
C30_MintsOnlyValidPayloads ==
    /\ [][\A a \in AmountInputs, r \in RecipientInputs :
            (HandleGenerate(a, r) /\ ~InputsValid(a, r))
                => UNCHANGED genVars]_vars
    /\ [][(pendingQr' # pendingQr /\ pendingQr' # NoData)
            => \E a \in AmountInputs, r \in RecipientInputs :
                  /\ a # "" /\ r # ""
                  /\ ~ParseFloat(a).nan /\ ParseFloat(a).val > 0
                  /\ pendingQr'.transaction.amount = ParseFloat(a).val
                  /\ pendingQr'.transaction.recipient = r
                  /\ genStore'[pendingQr'.transaction.id] = "pending"]_vars
    /\ [][(qrData' # qrData /\ qrData' # NoData) => qrData' = pendingQr]_vars
    /\ [](\A qr \in {qrData, pendingQr} \ {NoData} : WellMinted(qr))

\* The first payload has just been put on display.
C30_Witness ==
    /\ Armed
    /\ WellMinted(qrData)
    /\ qrData.transaction.id = 1
    /\ nextId = 1
    /\ pendingQr = NoData
    /\ timeLeft = ValidityWindow
    /\ liveIntervals = 1
    /\ envEvents = 0


\* C31: the storage listener invokes listeners only for a change whose key
\* has the prefix of the durable records and whose new value is present; it
\* then invokes the listeners of the kind the value names, with its data.
\* The removal of a record, a change of another key, the clearing of the
\* store and a value that is empty or no JSON invoke no listener and change
\* nothing of the generator.
C31_RelayOnlyForNewRecordValues ==
    [][\A event \in StorageEvents :
          StorageListener(event)
              => /\ (event.key.prefix # "payment_event_"
                        \/ event.newValue = NullValue)
                    => UNCHANGED <<calls, genVars, eventListeners, localStorage,
                                   cleanupTimers, emitLog>>
                 /\ event.newValue.kind \in {"raw", "empty"}
                    => UNCHANGED <<calls, genVars, eventListeners, localStorage,
                                   cleanupTimers, emitLog>>
                 /\ (event.key.prefix = "payment_event_"
                        /\ event.newValue.kind = "json")
                    => calls' = ExpectedCalls(
                                   OtherListeners(event.newValue.value.type),
                                   event.newValue.value.data)]_vars

\* Payload 1 is on display and f listens to both kinds; the one change the
\* listener was told of invoked nothing and the payload is still armed.
C31_Witness ==
    /\ envEvents = 1
    /\ calls = <<>>
    /\ Registered("paymentReceived", "f")
    /\ Registered("qrExpired", "f")
    /\ Armed
    /\ qrData.transaction.id = 1
    /\ localStorage = <<>>


====
